---------------------------- MODULE Spec2Model ----------------------------
(***************************************************************************)
(* cdr3fire: k-mer accelerated full-string regex matching.                 *)
(*                                                                         *)
(* The module models src/src/cdr3fire/core.py: build_3mer_index,           *)
(* query_3mers, regex_literal_3mers, match_regexes and                     *)
(* match_regexes_against_cdr3s, together with the part of the host regex   *)
(* engine (sre_parse.parse, re.compile, Pattern.fullmatch) those functions *)
(* call.  Texts are sequences of one-character strings; corpus ids are     *)
(* 0-based as in the source, so id i is strings[i + 1].                    *)
(***************************************************************************)
EXTENDS Integers, Sequences, FiniteSets, TLC

(***************************************************************************)
(* Bounds of the model.                                                    *)
(***************************************************************************)
MaxPatterns == 2        \* patterns per batch call
MaxStrings == 2         \* corpus strings per call
MaxStrLen == 3          \* characters per corpus string in a batch call
MaxIdxLen == 4          \* characters per corpus string when only the index is exercised
MaxQuery == 2           \* 3-mers per query_3mers call
MaxRunLen == 3          \* characters per literal run of a generated pattern

\* The k-mer length: the literal 3 (and 3 - 1 = 2) of core.py.
K == 3

\* The corpus alphabet: one letter in both cases.
Sigma == {"a", "A"}

Range(f) == {f[x] : x \in DOMAIN f}

\* All texts over alphabet S of length exactly n / at most n.
RECURSIVE TextsOfLen(_, _)
TextsOfLen(S, n) ==
    IF n = 0 THEN {<<>>}
    ELSE {Append(t, c) : t \in TextsOfLen(S, n - 1), c \in S}

TextsUpTo(S, n) == UNION {TextsOfLen(S, m) : m \in 0..n}

\* Python's s[j:j+3] for 0 <= j <= len(s) - 3.
Slice3(s, j) == SubSeq(s, j + 1, j + K)

\* w occurs as a contiguous substring of s.
Contains(s, w) ==
    \E j \in 0..(Len(s) - Len(w)) : SubSeq(s, j + 1, j + Len(w)) = w

(***************************************************************************)
(* The host regex engine, as far as the patterns of this model use it:     *)
(* literals, '.', character sets, the quantifiers '*' and '?' (greedy and  *)
(* lazy), capturing groups, alternation, the anchors '^' and '$', and the  *)
(* inline global flag (?i).  Escapes, ranges, {m,n}, '+' and the other     *)
(* (?...) extensions are outside the modelled subset; Patterns never       *)
(* generates them.                                                         *)
(***************************************************************************)
Tok(op, ch, set, args) == [op |-> op, ch |-> ch, set |-> set, args |-> args]
LiteralTok(c) == Tok("LITERAL", c, <<>>, <<>>)
NotLiteralTok(c) == Tok("NOT_LITERAL", c, <<>>, <<>>)
AnyTok == Tok("ANY", "", <<>>, <<>>)
AtTok(c) == Tok("AT", c, <<>>, <<>>)
\* ch = "^" marks a negated set.
InTok(neg, set) == Tok("IN", neg, set, <<>>)
\* op is MAX_REPEAT or MIN_REPEAT, ch the quantifier ("*" or "?").
RepeatTok(op, q, item) == Tok(op, q, <<>>, <<item>>)
SubpatternTok(items) == Tok("SUBPATTERN", "", <<>>, <<items>>)
BranchTok(alts) == Tok("BRANCH", "", <<>>, alts)

REPEAT_CHARS == {"*", "?"}
REPEATCODES == {"MAX_REPEAT", "MIN_REPEAT"}

ParseFail == [err |-> TRUE, items |-> <<>>, pos |-> 0, flags |-> {}]
ParseOk(items, pos, flags) ==
    [err |-> FALSE, items |-> items, pos |-> pos, flags |-> flags]

At(text, pos) == IF pos >= 1 /\ pos <= Len(text) THEN text[pos] ELSE ""

\* _uniq: drop repeated members, keep the order of first occurrence.
RECURSIVE Uniq(_)
Uniq(set) ==
    IF set = <<>> THEN <<>>
    ELSE LET init == Uniq(SubSeq(set, 1, Len(set) - 1))
             last == set[Len(set)]
         IN  IF last \in Range(init) THEN init ELSE Append(init, last)

\* The members of a character set, read up to the closing "]"; a "]" met
\* before any member is a member.
RECURSIVE parse_class(_, _, _)
parse_class(text, pos, set) ==
    IF pos > Len(text) THEN [err |-> TRUE, set |-> <<>>, pos |-> 0]
    ELSE IF text[pos] = "]" /\ set # <<>>
         THEN [err |-> FALSE, set |-> Uniq(set), pos |-> pos + 1]
         ELSE parse_class(text, pos + 1, Append(set, text[pos]))

\* item[0] != prefix compares (op, av) tuples; an av that holds a SubPattern
\* compares by identity, so two separately parsed ones are never equal.
TokEq(x, y) ==
    /\ x = y
    /\ x.op \in {"LITERAL", "NOT_LITERAL", "ANY", "AT", "IN"}

AllSharePrefix(items) ==
    /\ \A k \in 1..Len(items) : items[k] # <<>>
    /\ \A k \in 2..Len(items) : TokEq(items[k][1], items[1][1])

\* The common prefix of the alternatives, moved out of the branch.
RECURSIVE SplitPrefix(_, _)
SplitPrefix(prefix, items) ==
    IF AllSharePrefix(items)
    THEN SplitPrefix(Append(prefix, items[1][1]),
                     [k \in 1..Len(items) |-> Tail(items[k])])
    ELSE [prefix |-> prefix, items |-> items]

IsSetItem(item) ==
    /\ Len(item) = 1
    /\ \/ item[1].op = "LITERAL"
       \/ item[1].op = "IN" /\ item[1].ch # "^"

RECURSIVE MergeSets(_)
MergeSets(items) ==
    IF items = <<>> THEN <<>>
    ELSE LET head == items[1][1]
         IN  (IF head.op = "LITERAL" THEN <<head.ch>> ELSE head.set)
                 \o MergeSets(Tail(items))

\* What _parse_sub returns for two or more alternatives.
Alternation(alts) ==
    LET sp == SplitPrefix(<<>>, alts)
    IN  IF \A k \in 1..Len(sp.items) : IsSetItem(sp.items[k])
        THEN Append(sp.prefix, InTok("", Uniq(MergeSets(sp.items))))
        ELSE Append(sp.prefix, BranchTok(sp.items))

RECURSIVE parse_sub(_, _, _, _), parse_alts(_, _, _, _, _), parse_seq(_, _, _, _, _, _)

\* "[": a set of one member is stored as that literal, any other as IN.
SetTok(neg, set) ==
    IF Len(set) = 1
    THEN (IF neg = "^" THEN NotLiteralTok(set[1]) ELSE LiteralTok(set[1]))
    ELSE InTok(neg, set)

AfterSet(text, c, neg, acc, nested, first, flags) ==
    IF c.err THEN ParseFail
    ELSE parse_seq(text, c.pos, Append(acc, SetTok(neg, c.set)), nested, first, flags)

\* "(": the group's alternation must end at a ")".
AfterGroup(text, r, acc, nested, first) ==
    IF r.err \/ At(text, r.pos) # ")" THEN ParseFail
    ELSE parse_seq(text, r.pos + 1, Append(acc, SubpatternTok(r.items)),
                   nested, first, r.flags)

\* "*" or "?" after an item, made lazy by a following "?".
Repeat(text, pos, acc, lazy, nested, first, flags) ==
    parse_seq(text, IF lazy THEN pos + 2 ELSE pos + 1,
              Append(SubSeq(acc, 1, Len(acc) - 1),
                     RepeatTok(IF lazy THEN "MIN_REPEAT" ELSE "MAX_REPEAT",
                               text[pos], <<acc[Len(acc)]>>)),
              nested, first, flags)

\* _parse: one alternative, read up to "|", ")" or the end of the text.
parse_seq(text, pos, acc, nested, first, flags) ==
    IF pos > Len(text) \/ At(text, pos) \in {"|", ")"} THEN ParseOk(acc, pos, flags)
    ELSE IF text[pos] = "["
    THEN IF At(text, pos + 1) = "^"
         THEN AfterSet(text, parse_class(text, pos + 2, <<>>), "^",
                       acc, nested, first, flags)
         ELSE AfterSet(text, parse_class(text, pos + 1, <<>>), "",
                       acc, nested, first, flags)
    ELSE IF text[pos] \in REPEAT_CHARS
    THEN IF acc = <<>> \/ acc[Len(acc)].op = "AT" THEN ParseFail
         ELSE IF acc[Len(acc)].op \in REPEATCODES THEN ParseFail
         ELSE Repeat(text, pos, acc, At(text, pos + 1) = "?", nested, first, flags)
    ELSE IF text[pos] = "(" /\ At(text, pos + 1) = "?"
    THEN \* global flags: only (?i), only at the start of the expression
         IF At(text, pos + 2) = "i" /\ At(text, pos + 3) = ")" /\ first /\ acc = <<>>
         THEN parse_seq(text, pos + 4, acc, nested, first, flags \cup {"i"})
         ELSE ParseFail
    ELSE IF text[pos] = "("
    THEN AfterGroup(text, parse_sub(text, pos + 1, nested + 1, flags), acc, nested, first)
    ELSE parse_seq(text, pos + 1,
                   Append(acc, IF text[pos] = "." THEN AnyTok
                               ELSE IF text[pos] \in {"^", "$"} THEN AtTok(text[pos])
                               ELSE LiteralTok(text[pos])),
                   nested, first, flags)

AfterAlternative(text, r, items, nested) ==
    IF r.err THEN [err |-> TRUE, alts |-> <<>>, pos |-> 0, flags |-> {}]
    ELSE IF At(text, r.pos) = "|"
         THEN parse_alts(text, r.pos + 1, Append(items, r.items), nested, r.flags)
         ELSE [err |-> FALSE, alts |-> Append(items, r.items),
               pos |-> r.pos, flags |-> r.flags]

parse_alts(text, pos, items, nested, flags) ==
    AfterAlternative(text,
        parse_seq(text, pos, <<>>, nested + 1, nested = 0 /\ items = <<>>, flags),
        items, nested)

AfterAlternatives(a) ==
    IF a.err THEN ParseFail
    ELSE IF Len(a.alts) = 1 THEN ParseOk(a.alts[1], a.pos, a.flags)
    ELSE ParseOk(Alternation(a.alts), a.pos, a.flags)

\* _parse_sub: an alternation a|b|c.
parse_sub(text, pos, nested, flags) ==
    AfterAlternatives(parse_alts(text, pos, <<>>, nested, flags))

Balanced(regex, r) == IF r.err \/ r.pos <= Len(regex) THEN ParseFail ELSE r

\* sre_parse.parse(regex): the top-level token sequence and the flags, or an
\* error (re.error).  Text left over after the alternation is an unbalanced ")".
sre_parse(regex) == Balanced(regex, parse_sub(regex, 1, 0, {}))

\* str.lower on the characters of the model.
Lower(c) == IF c = "A" THEN "a" ELSE c

CharEq(c, d, ignorecase) == IF ignorecase THEN Lower(c) = Lower(d) ELSE c = d

CharIn(c, tok, ic) ==
    (\E k \in 1..Len(tok.set) : CharEq(c, tok.set[k], ic)) <=> (tok.ch # "^")

\* Whether a one-character token takes character c.
Takes(tok, c, ic) ==
    \/ tok.op = "LITERAL" /\ CharEq(c, tok.ch, ic)
    \/ tok.op = "NOT_LITERAL" /\ ~CharEq(c, tok.ch, ic)
    \/ tok.op = "ANY"
    \/ tok.op = "IN" /\ CharIn(c, tok, ic)

\* The positions (characters consumed) a token sequence can end at, started
\* from any position of P.  A starred item is iterated from the positions
\* reached last (seen holds every position reached so far); the ops
\* "STAR_LOOP" marks that iteration in progress.
RECURSIVE MatchSeq(_, _, _, _, _)
MatchSeq(items, s, P, seen, ic) ==
    IF items = <<>> THEN P
    ELSE IF items[1].op \in {"LITERAL", "NOT_LITERAL", "ANY", "IN"}
    THEN MatchSeq(Tail(items), s,
                  {p + 1 : p \in {q \in P : q < Len(s) /\ Takes(items[1], s[q + 1], ic)}},
                  {}, ic)
    ELSE IF items[1].op = "AT"
    THEN MatchSeq(Tail(items), s,
                  {p \in P : p = (IF items[1].ch = "^" THEN 0 ELSE Len(s))}, {}, ic)
    ELSE IF items[1].op \in {"SUBPATTERN", "BRANCH"}
    THEN MatchSeq(Tail(items), s,
                  UNION {MatchSeq(items[1].args[k], s, P, {}, ic) :
                            k \in 1..Len(items[1].args)},
                  {}, ic)
    ELSE IF items[1].ch = "?"
    THEN MatchSeq(Tail(items), s, P \cup MatchSeq(items[1].args[1], s, P, {}, ic), {}, ic)
    ELSE IF P \subseteq seen
    THEN MatchSeq(Tail(items), s, seen, {}, ic)
    ELSE MatchSeq(items, s, MatchSeq(items[1].args[1], s, P \ seen, {}, ic),
                  seen \cup P, ic)

\* re.compile(regex) raises exactly when the parse does (the modelled subset
\* has no construct the compiler alone rejects).
re_compile_raises(regex) == sre_parse(regex).err

\* re.compile(regex).fullmatch(s) is not None, for a regex that compiles.
Accepts(r, s) == ~r.err /\ Len(s) \in MatchSeq(r.items, s, {0}, {}, "i" \in r.flags)
fullmatch(regex, s) == Accepts(sre_parse(regex), s)

(***************************************************************************)
(* The inputs of the model.  A generated pattern is an optional (?i), a    *)
(* literal run, then a second literal run inside or after one construct:   *)
(* flag run1 open run2 close.  The constructs cover a bare literal, the    *)
(* wildcard, quantifiers on the last literal of run1, alternation,         *)
(* anchors, a group, a character set, and the malformed texts a batch can  *)
(* hold (unterminated set or group, unbalanced parenthesis).               *)
(***************************************************************************)
FlagPrefixes == {<<>>, <<"(", "?", "i", ")">>}

Constructs ==
    { <<<<>>, <<>>>>,
      <<<<".">>, <<>>>>,
      <<<<".", "*">>, <<>>>>,
      <<<<"*">>, <<>>>>,
      <<<<"?">>, <<>>>>,
      <<<<"*", "?">>, <<>>>>,
      <<<<"|">>, <<>>>>,
      <<<<"$">>, <<>>>>,
      <<<<"^">>, <<>>>>,
      <<<<"(">>, <<")">>>>,
      <<<<"(">>, <<")", "*">>>>,
      <<<<"[">>, <<"]">>>>,
      <<<<"[", "^">>, <<"]">>>>,
      <<<<"[">>, <<>>>>,
      <<<<"(">>, <<>>>>,
      <<<<>>, <<")">>>> }

Runs == TextsUpTo(Sigma, MaxRunLen)

Patterns ==
    {f \o r1 \o c[1] \o r2 \o c[2] :
        f \in FlagPrefixes, r1 \in Runs, c \in Constructs, r2 \in Runs}

\* Lists of at most n members of S.
ListsUpTo(S, n) == UNION {[1..m -> S] : m \in 0..n}

\* The batch calls take their patterns from this pool of generated patterns:
\* a literal with a 3-mer, a literal run too short for one, a quantified last
\* literal, the all-wildcard pattern, an alternation, a case-insensitive
\* pattern, and a text the parser rejects.
BatchPatterns ==
    { <<"a", "a", "a">>,
      <<"a", "A", ".", "*">>,
      <<"a", "a", "a", "*">>,
      <<".", "*">>,
      <<"a", "a", "a", "|", "A", "A", "A">>,
      <<"(", "?", "i", ")", "a", "a", "a">>,
      <<"[", "a">> }

BatchStrings == TextsUpTo(Sigma, MaxStrLen)
IndexStrings == TextsUpTo(Sigma, MaxIdxLen)
Kmers == TextsOfLen(Sigma, K)

(***************************************************************************)
(* core.py                                                                 *)
(***************************************************************************)
\* The ids of a corpus: range(len(strings)).
Ids(strs) == 0..(Len(strs) - 1)

\* An iteration order of a Python set (one fixed order).
RECURSIVE SetToSeq(_)
SetToSeq(S) ==
    IF S = {} THEN <<>>
    ELSE LET x == CHOOSE y \in S : TRUE IN <<x>> \o SetToSeq(S \ {x})

EmptyDict == [k \in {} |-> {}]

\* index[kmer].add(i) on a defaultdict(set).
DictAdd(index, kmer, i) ==
    [k \in DOMAIN index \cup {kmer} |->
        IF k = kmer
        THEN (IF k \in DOMAIN index THEN index[k] ELSE {}) \cup {i}
        ELSE index[k]]

\* The stop of range(len(s) - 2).
kmer_stop_short(s) == Len(s) - K
kmer_stop(s) == Len(s) - (K - 1)

\* for j in range(len(s) - 2): index[s[j:j+3]].add(i)
RECURSIVE index_string(_, _, _, _)
index_string(index, s, i, j) ==
    IF j >= kmer_stop(s) THEN index
    ELSE index_string(DictAdd(index, Slice3(s, j), i), s, i, j + 1)

RECURSIVE index_strings(_, _, _)
index_strings(index, strs, i) ==
    IF i >= Len(strs) THEN index
    ELSE index_strings(index_string(index, strs[i + 1], i, 0), strs, i + 1)

build_3mer_index(strs) == index_strings(EmptyDict, strs, 0)

\* index.get(kmer, set())
index_get(index, kmer) == IF kmer \in DOMAIN index THEN index[kmer] ELSE {}

\* set.intersection(*sets) for a non-empty list of sets.
RECURSIVE set_intersection(_)
set_intersection(sets) ==
    IF Len(sets) = 1 THEN sets[1]
    ELSE sets[1] \cap set_intersection(Tail(sets))

query_3mers_skip_absent(index, kmers) ==
    LET sets == SelectSeq([k \in 1..Len(kmers) |-> index_get(index, kmers[k])],
                          LAMBDA x : x # {})
    IN  IF sets # <<>> THEN set_intersection(sets) ELSE {}
query_3mers(index, kmers) ==
    LET sets == [k \in 1..Len(kmers) |-> index_get(index, kmers[k])]
    IN  IF sets # <<>> THEN set_intersection(sets) ELSE {}

\* The dict after index[kmer] on a defaultdict(set): a missing key is
\* inserted with an empty set.
dict_after_getitem(index, kmer) ==
    [k \in DOMAIN index \cup {kmer} |-> IF k \in DOMAIN index THEN index[k] ELSE {}]
\* The dict after index.get(kmer, set()): get never inserts, and the default
\* set() is a fresh object that is not stored.
dict_after_get(index, kmer) == index

\* The index after sets = [index.get(kmer, set()) for kmer in kmers];
\* set.intersection(*sets) builds a new set and writes to none of the postings.
RECURSIVE index_after_query(_, _)
index_after_query(index, kmers) ==
    IF kmers = <<>> THEN index
    ELSE index_after_query(dict_after_get(index, Head(kmers)), Tail(kmers))

\* The index after the query_3mers calls of one loop iteration.
RECURSIVE index_after_queries(_, _)
index_after_queries(index, queries) ==
    IF queries = <<>> THEN index
    ELSE index_after_queries(index_after_query(index, Head(queries)), Tail(queries))

\* if len(buffer) >= 3: kmers.add(every window of 3) -- the flush at a
\* non-literal token.
flush(buffer) ==
    IF Len(buffer) >= K
    THEN {SubSeq(buffer, i + 1, i + K) : i \in 0..(Len(buffer) - K)}
    ELSE {}

\* The same flush after the loop, for the run that ends the pattern.
no_final_flush(buffer) == {}
final_flush(buffer) == flush(buffer)

\* for token in parsed: a literal joins the buffer, anything else flushes it.
RECURSIVE scan_tokens(_, _, _, _)
scan_tokens(parsed, n, kmers, buffer) ==
    IF n > Len(parsed) THEN kmers \cup final_flush(buffer)
    ELSE IF parsed[n].op = "LITERAL"
         THEN scan_tokens(parsed, n + 1, kmers, Append(buffer, parsed[n].ch))
         ELSE scan_tokens(parsed, n + 1, kmers \cup flush(buffer), <<>>)

regex_literal_3mers_raises(regex) == sre_parse(regex).err
regex_literal_3mers(regex) == scan_tokens(sre_parse(regex).items, 1, {}, <<>>)

\* query_3mers(index, kmers) if kmers else set(range(len(strings))): the
\* candidate set, and the argument of each query_3mers call the line made.
candidate_always_query(index, kmers, strs) ==
    [cand |-> query_3mers(index, SetToSeq(kmers)), queries |-> <<SetToSeq(kmers)>>]
candidate_indices(index, kmers, strs) ==
    IF kmers # {}
    THEN [cand |-> query_3mers(index, SetToSeq(kmers)), queries |-> <<SetToSeq(kmers)>>]
    ELSE [cand |-> Ids(strs), queries |-> <<>>]

\* lil_matrix((n, m), dtype=np.uint8): the shape and the stored entries.
lil_matrix_transposed(n, m) == [nrows |-> m, ncols |-> n, nz |-> [e \in {} |-> 0]]
lil_matrix(n, m) == [nrows |-> n, ncols |-> m, nz |-> [e \in {} |-> 0]]

\* mat[i, j]
MatGet(m, i, j) == IF <<i, j>> \in DOMAIN m.nz THEN m.nz[<<i, j>>] ELSE 0

\* mat[i, j] = 1 for every j of cols.
MatSetRow(m, i, cols) ==
    [m EXCEPT !.nz = [e \in DOMAIN m.nz \cup {<<i, j>> : j \in cols} |-> 1]]

\* The body of the try block for one pattern: whether it raised, and the
\* locals it computed.  Parse and compile come before the first write, so a
\* raising pattern has written nothing.
Verified(rx, kmers, c, strs) ==
    [raised |-> FALSE, kmers |-> kmers, cand |-> c.cand, queries |-> c.queries,
     row |-> {j \in c.cand : fullmatch(rx, strs[j + 1])}]

Filtered(rx, kmers, index, strs) ==
    Verified(rx, kmers, candidate_indices(index, kmers, strs), strs)

try_body(rx, index, strs) ==
    IF regex_literal_3mers_raises(rx) \/ re_compile_raises(rx)
    THEN [raised |-> TRUE, kmers |-> {}, cand |-> {}, queries |-> <<>>, row |-> {}]
    ELSE Filtered(rx, regex_literal_3mers(rx), index, strs)

\* except Exception: print(...); continue -- the loop goes on with i + 1.
after_except_break(i, n) == n
after_except(i, n) == i + 1

\* [i for i in candidate_indices if pattern.fullmatch(cdr3_list[i])]
matched_unverified(rx, cand, cdr3_list) == SetToSeq(cand)
matched(rx, cand, cdr3_list) ==
    SelectSeq(SetToSeq(cand), LAMBDA i : fullmatch(rx, cdr3_list[i + 1]))

\* One pattern of match_regexes_against_cdr3s: the entry appended to results
\* and the locals behind it.
Entry(rx, kmers, c, cdr3_list) ==
    [raised |-> FALSE, kmers |-> kmers, cand |-> c.cand, queries |-> c.queries,
     entry |-> <<rx, matched(rx, c.cand, cdr3_list)>>]

loop_body(rx, index, cdr3_list) ==
    Entry(rx, regex_literal_3mers(rx),
          candidate_indices(index, regex_literal_3mers(rx), cdr3_list), cdr3_list)

\* One iteration of the loop of match_regexes on (mat, i, log).
Locals(i, b) ==
    [i |-> i, raised |-> b.raised, kmers |-> b.kmers, cand |-> b.cand,
     queries |-> b.queries]

Handled(st, b, rx, n) ==
    IF b.raised
    THEN [mat |-> st.mat, i |-> after_except(st.i, n), log |-> Append(st.log, rx),
          trace |-> Append(st.trace, Locals(st.i, b))]
    ELSE [mat |-> MatSetRow(st.mat, st.i, b.row), i |-> st.i + 1, log |-> st.log,
          trace |-> Append(st.trace, Locals(st.i, b))]

m_step(st, rs, index, strs) ==
    Handled(st, try_body(rs[st.i + 1], index, strs), rs[st.i + 1], Len(rs))

RECURSIVE m_loop(_, _, _, _)
m_loop(st, rs, index, strs) ==
    IF st.i >= Len(rs) THEN st.mat
    ELSE m_loop(m_step(st, rs, index, strs), rs, index, strs)

\* match_regexes(regexes, strings), start to return.
match_regexes(rs, strs) ==
    m_loop([mat |-> lil_matrix(Len(rs), Len(strs)), i |-> 0, log |-> <<>>,
            trace |-> <<>>],
           rs, build_3mer_index(strs), strs)

(***************************************************************************)
(* State.                                                                  *)
(*   regexes, strings  the arguments of the batch calls                    *)
(*   m_*, mat          match_regexes: position, index, matrix, loop        *)
(*                     counter, printed diagnostics, per-pattern locals    *)
(*   r_*, results      match_regexes_against_cdr3s, likewise               *)
(*   ix_pc, index, q_kmers, q_result                                       *)
(*                     build_3mer_index and query_3mers called directly    *)
(*   x_pc, regex, x_kmers                                                  *)
(*                     regex_literal_3mers called directly                 *)
(***************************************************************************)
VARIABLES regexes, strings,
          m_pc, m_index, mat, m_i, m_log, m_trace,
          r_pc, r_index, results, r_i, r_trace,
          ix_pc, index, q_kmers, q_result,
          x_pc, regex, x_kmers

batch_vars == <<regexes, strings>>
m_vars == <<m_pc, m_index, mat, m_i, m_log, m_trace>>
r_vars == <<r_pc, r_index, results, r_i, r_trace>>
ix_vars == <<ix_pc, index, q_kmers, q_result>>
x_vars == <<x_pc, regex, x_kmers>>
vars == <<batch_vars, m_vars, r_vars, ix_vars, x_vars>>

InitM ==
    /\ m_pc = "start" /\ m_index = EmptyDict /\ mat = lil_matrix(0, 0)
    /\ m_i = 0 /\ m_log = <<>> /\ m_trace = <<>>
InitR ==
    /\ r_pc = "start" /\ r_index = EmptyDict /\ results = <<>>
    /\ r_i = 0 /\ r_trace = <<>>
InitIx == ix_pc = "start" /\ index = EmptyDict /\ q_kmers = <<>> /\ q_result = {}
InitX == x_pc = "start" /\ x_kmers = {}

IdleCalls ==
    /\ m_pc = "idle" /\ m_index = EmptyDict /\ mat = lil_matrix(0, 0)
    /\ m_i = 0 /\ m_log = <<>> /\ m_trace = <<>>
    /\ r_pc = "idle" /\ r_index = EmptyDict /\ results = <<>>
    /\ r_i = 0 /\ r_trace = <<>>
IdleIx == ix_pc = "idle" /\ index = EmptyDict /\ q_kmers = <<>> /\ q_result = {}
IdleX == x_pc = "idle" /\ regex = <<>> /\ x_kmers = {}

(***************************************************************************)
(* match_regexes(regexes, strings)                                         *)
(***************************************************************************)
\* index = build_3mer_index(strings); mat = lil_matrix(...)
MBuild ==
    /\ m_pc = "start"
    /\ m_index' = build_3mer_index(strings)
    /\ mat' = lil_matrix(Len(regexes), Len(strings))
    /\ m_i' = 0
    /\ m_pc' = "loop"
    /\ UNCHANGED <<m_log, m_trace, batch_vars, r_vars, ix_vars, x_vars>>

\* One iteration of for i, regex in enumerate(regexes): the try block and
\* its handler.
MIter ==
    /\ m_pc = "loop"
    /\ m_i < Len(regexes)
    /\ LET st == m_step([mat |-> mat, i |-> m_i, log |-> m_log, trace |-> m_trace],
                        regexes, m_index, strings)
       IN  /\ m_trace' = st.trace
           /\ mat' = st.mat
           /\ m_i' = st.i
           /\ m_log' = st.log
           /\ m_index' = index_after_queries(m_index, st.trace[Len(st.trace)].queries)
    /\ UNCHANGED <<m_pc, batch_vars, r_vars, ix_vars, x_vars>>

\* return mat.tocsr()
MReturn ==
    /\ m_pc = "loop"
    /\ m_i >= Len(regexes)
    /\ m_pc' = "returned"
    /\ UNCHANGED <<m_index, mat, m_i, m_log, m_trace, batch_vars, r_vars, ix_vars, x_vars>>

(***************************************************************************)
(* match_regexes_against_cdr3s(regexes, cdr3_list), called with the same   *)
(* arguments once match_regexes has returned.                              *)
(***************************************************************************)
RBuild ==
    /\ m_pc = "returned"
    /\ r_pc = "start"
    /\ r_index' = build_3mer_index(strings)
    /\ results' = <<>>
    /\ r_i' = 0
    /\ r_pc' = "loop"
    /\ UNCHANGED <<r_trace, batch_vars, m_vars, ix_vars, x_vars>>

\* One iteration of for regex in regexes, for a pattern that parses and
\* compiles.
RIter ==
    /\ r_pc = "loop"
    /\ r_i < Len(regexes)
    /\ ~regex_literal_3mers_raises(regexes[r_i + 1])
    /\ ~re_compile_raises(regexes[r_i + 1])
    /\ LET b == loop_body(regexes[r_i + 1], r_index, strings)
       IN  /\ results' = Append(results, b.entry)
           /\ r_trace' = Append(r_trace, Locals(r_i, b))
           /\ r_index' = index_after_queries(r_index, b.queries)
    /\ r_i' = r_i + 1
    /\ UNCHANGED <<r_pc, batch_vars, m_vars, ix_vars, x_vars>>

\* The same iteration for a pattern that does not: there is no try block, the
\* re.error leaves the function and no result is returned.
RRaise ==
    /\ r_pc = "loop"
    /\ r_i < Len(regexes)
    /\ regex_literal_3mers_raises(regexes[r_i + 1]) \/ re_compile_raises(regexes[r_i + 1])
    /\ r_pc' = "raised"
    /\ UNCHANGED <<r_index, results, r_i, r_trace, batch_vars, m_vars, ix_vars, x_vars>>

\* return results
RReturn ==
    /\ r_pc = "loop"
    /\ r_i >= Len(regexes)
    /\ r_pc' = "returned"
    /\ UNCHANGED <<r_index, results, r_i, r_trace, batch_vars, m_vars, ix_vars, x_vars>>

Init ==
    /\ regexes \in ListsUpTo(BatchPatterns, MaxPatterns)
    /\ strings \in ListsUpTo(BatchStrings, MaxStrings)
    /\ InitM /\ InitR /\ IdleIx /\ IdleX

Next == MBuild \/ MIter \/ MReturn \/ RBuild \/ RIter \/ RRaise \/ RReturn

Spec == Init /\ [][Next]_vars

(***************************************************************************)
(* build_3mer_index(strings) and query_3mers(index, kmers) called directly.*)
(***************************************************************************)
IxBuild ==
    /\ ix_pc = "start"
    /\ index' = build_3mer_index(strings)
    /\ ix_pc' = "built"
    /\ UNCHANGED <<q_kmers, q_result, batch_vars, m_vars, r_vars, x_vars>>

IxQuery ==
    /\ ix_pc \in {"built", "queried"}
    /\ \E kmers \in ListsUpTo(Kmers, MaxQuery) :
          /\ kmers # <<>>
          /\ q_kmers' = kmers
          /\ q_result' = query_3mers(index, kmers)
          /\ index' = index_after_query(index, kmers)
    /\ ix_pc' = "queried"
    /\ UNCHANGED <<batch_vars, m_vars, r_vars, x_vars>>

InitIndex ==
    /\ regexes = <<>>
    /\ strings \in ListsUpTo(IndexStrings, MaxStrings)
    /\ IdleCalls
    /\ InitIx /\ IdleX

NextIndex == IxBuild \/ IxQuery

SpecIndex == InitIndex /\ [][NextIndex]_vars

(***************************************************************************)
(* regex_literal_3mers(regex) called directly.                             *)
(***************************************************************************)
XExtract ==
    /\ x_pc = "start"
    /\ ~regex_literal_3mers_raises(regex)
    /\ x_kmers' = regex_literal_3mers(regex)
    /\ x_pc' = "returned"
    /\ UNCHANGED <<regex, batch_vars, m_vars, r_vars, ix_vars>>

XRaise ==
    /\ x_pc = "start"
    /\ regex_literal_3mers_raises(regex)
    /\ x_pc' = "raised"
    /\ UNCHANGED <<regex, x_kmers, batch_vars, m_vars, r_vars, ix_vars>>

InitExtract ==
    /\ regexes = <<>> /\ strings = <<>>
    /\ IdleCalls /\ IdleIx
    /\ regex \in Patterns
    /\ InitX

NextExtract == XExtract \/ XRaise

SpecExtract == InitExtract /\ [][NextExtract]_vars

(***************************************************************************)
(* Claims.                                                                 *)
(***************************************************************************)
Compiles(rx) == ~re_compile_raises(rx)
PatternIds == 0..(Len(regexes) - 1)
Row(m, p) == {j \in Ids(strings) : MatGet(m, p, j) = 1}
BruteRow(rx) == {j \in Ids(strings) : fullmatch(rx, strings[j + 1])}

\* C1 (Equivalence): for a list of patterns the host engine accepts,
\* match_regexes returns 1 at [p, s] exactly when the host engine's full-string
\* match of regexes[p] against strings[s] succeeds, and 0 otherwise.
C1_Equivalence ==
    (m_pc = "returned" /\ \A p \in PatternIds : Compiles(regexes[p + 1]))
        => \A p \in PatternIds : \A j \in Ids(strings) :
              MatGet(mat, p, j) =
                  (IF fullmatch(regexes[p + 1], strings[j + 1]) THEN 1 ELSE 0)

\* C2 (Extractor soundness): every 3-mer regex_literal_3mers returns for a
\* pattern is a substring of every string the host engine fully matches
\* against that pattern.
C2_ExtractorSound ==
    x_pc = "returned"
        => \A w \in x_kmers : \A s \in BatchStrings :
              fullmatch(regex, s) => Contains(s, w)

\* C3 (Failure containment in match_regexes): the call ends by returning, not
\* by an exception; the row of a pattern that does not parse or compile is
\* all-zero in every state; every pattern is processed; and the row of every
\* other pattern is its row in the call without the failing patterns.
ValidOnly == SelectSeq(regexes, Compiles)
\* The position of pattern p among the valid ones.
ValidRank(p) == Cardinality({q \in 0..p : Compiles(regexes[q + 1])}) - 1

C3_FailureContained ==
    /\ m_pc \in {"start", "loop", "returned"}
    /\ \A p \in PatternIds :
          ~Compiles(regexes[p + 1]) => \A j \in Ids(strings) : MatGet(mat, p, j) = 0
    /\ m_pc = "returned" =>
          /\ Len(m_trace) = Len(regexes)
          /\ \A p \in PatternIds : m_trace[p + 1].i = p
          /\ m_log = SelectSeq(regexes, LAMBDA rx : ~Compiles(rx))
          /\ LET without == match_regexes(ValidOnly, strings)
             IN  \A p \in PatternIds :
                    Compiles(regexes[p + 1]) =>
                        Row(mat, p) = Row(without, ValidRank(p))

C3_Witness ==
    /\ m_pc = "returned"
    /\ Len(regexes) = 2
    /\ ~Compiles(regexes[1])
    /\ Compiles(regexes[2])
    /\ Row(mat, 1) # {}

\* C4 (Result shape): match_regexes returns a matrix of len(regexes) rows and
\* len(strings) columns whose entries are 0 or 1, for every input, empty
\* lists and invalid patterns included; no write of the loop falls outside
\* the matrix (which would raise), and the call ends by returning.
C4_Shape ==
    /\ m_pc \in {"start", "loop", "returned"}
    /\ m_pc # "start" =>
          /\ m_i \in 0..Len(regexes)
          /\ \A e \in DOMAIN mat.nz :
                /\ e[1] \in 0..(mat.nrows - 1)
                /\ e[2] \in 0..(mat.ncols - 1)
                /\ mat.nz[e] \in {0, 1}
    /\ m_pc = "returned" =>
          /\ mat.nrows = Len(regexes)
          /\ mat.ncols = Len(strings)
          /\ \A p \in PatternIds : \A j \in Ids(strings) : MatGet(mat, p, j) \in {0, 1}

C4_Witness ==
    /\ m_pc = "returned"
    /\ Len(regexes) = 2 /\ Len(strings) = 1
    /\ \E p \in PatternIds : ~Compiles(regexes[p + 1])
    /\ \E p \in PatternIds : Row(mat, p) # {}

\* C5 (Agreement of the two output shapes): for compilable patterns,
\* match_regexes_against_cdr3s returns one (pattern, ids) entry per pattern,
\* in input order, with the pattern text, and the ids of entry p are exactly
\* the columns holding 1 in row p of match_regexes, none repeated, all in
\* 0..len(S)-1.
C5_ShapesAgree ==
    (m_pc = "returned" /\ r_pc = "returned"
        /\ \A p \in PatternIds : Compiles(regexes[p + 1]))
        => /\ Len(results) = Len(regexes)
           /\ \A p \in PatternIds :
                 /\ results[p + 1][1] = regexes[p + 1]
                 /\ Range(results[p + 1][2]) = Row(mat, p)
                 /\ Range(results[p + 1][2]) \subseteq Ids(strings)
                 /\ Cardinality(Range(results[p + 1][2])) = Len(results[p + 1][2])

C5_Witness ==
    /\ m_pc = "returned" /\ r_pc = "returned"
    /\ Len(regexes) = 2 /\ Len(strings) = 2
    /\ Len(results) = 2
    /\ Len(results[1][2]) = 2
    /\ Len(results[2][2]) = 1

\* C6 (Failure containment in match_regexes_against_cdr3s): a pattern that
\* does not parse or compile does not abort the batch; the call returns an
\* entry for every pattern, with no ids for the failing one and the ids of
\* the brute-force match for the others.
C6_BatchNotAborted ==
    /\ r_pc # "raised"
    /\ r_pc = "returned" =>
          /\ Len(results) = Len(regexes)
          /\ \A p \in PatternIds :
                Range(results[p + 1][2]) =
                    (IF Compiles(regexes[p + 1]) THEN Row(mat, p) ELSE {})

\* C7 (Index exactness): after build_3mer_index, id i is in the posting set
\* of the 3-character string w exactly when w occurs in strings[i] at some
\* offset j in [0, len - 3]; shorter strings contribute nothing; every key is
\* a 3-character string and no key has an empty posting set.
OccursIn(w, s) == \E j \in 0..(Len(s) - 3) : SubSeq(s, j + 1, j + 3) = w

C7_IndexExact ==
    ix_pc # "start" =>
        /\ \A w \in Kmers : \A i \in Ids(strings) :
              (w \in DOMAIN index /\ i \in index[w]) <=> OccursIn(w, strings[i + 1])
        /\ \A w \in DOMAIN index :
              /\ Len(w) = 3
              /\ index[w] # {}
              /\ index[w] \subseteq Ids(strings)

C7_Witness ==
    /\ ix_pc = "built"
    /\ Len(strings) = 2
    /\ Len(strings[1]) = 4 /\ Len(strings[2]) = 3
    /\ \E w \in DOMAIN index : index[w] = {0, 1}
    /\ \E w \in DOMAIN index : index[w] = {0}

\* C8 (Query result): query_3mers on a non-empty list returns exactly the ids
\* that are in the posting set of every requested 3-mer; an absent 3-mer
\* makes the result empty; the result is the same for every list with the
\* same members, whatever their order and repetition.
C8_QueryIntersection ==
    ix_pc = "queried" =>
        /\ q_kmers # <<>>
        /\ q_result = {i \in Ids(strings) :
                          \A k \in DOMAIN q_kmers :
                              q_kmers[k] \in DOMAIN index /\ i \in index[q_kmers[k]]}
        /\ (\E k \in DOMAIN q_kmers : q_kmers[k] \notin DOMAIN index) => q_result = {}
        /\ \A other \in ListsUpTo(Range(q_kmers), MaxQuery) :
              Range(other) = Range(q_kmers) => query_3mers(index, other) = q_result

C8_Witness ==
    /\ ix_pc = "queried"
    /\ Len(q_kmers) = 2
    /\ q_kmers[1] # q_kmers[2]
    /\ Cardinality(DOMAIN index) >= 3
    /\ q_result # {}
    /\ q_result # Ids(strings)

\* C9 (Candidate fallback): in both batch functions, a pattern with no
\* mandatory 3-mer gets the full id range as its candidates, without a call
\* of query_3mers, and still finds every true match; a pattern with
\* mandatory 3-mers gets the ids whose posting sets hold them all, by one
\* call of query_3mers; query_3mers is never called with an empty list.
FallbackOk(t, idx) ==
    t.raised \/
    /\ t.kmers = regex_literal_3mers(regexes[t.i + 1])
    /\ \A k \in DOMAIN t.queries : t.queries[k] # <<>>
    /\ t.kmers = {} =>
          /\ t.cand = 0..(Len(strings) - 1)
          /\ t.queries = <<>>
    /\ t.kmers # {} =>
          /\ Len(t.queries) = 1
          /\ Range(t.queries[1]) = t.kmers
          /\ t.cand = {i \in Ids(strings) :
                          \A w \in t.kmers : w \in DOMAIN idx /\ i \in idx[w]}

C9_CandidateFallback ==
    /\ \A k \in DOMAIN m_trace :
          /\ FallbackOk(m_trace[k], m_index)
          /\ (~m_trace[k].raised /\ m_trace[k].kmers = {}) =>
                Row(mat, m_trace[k].i) = BruteRow(regexes[m_trace[k].i + 1])
    /\ \A k \in DOMAIN r_trace :
          /\ FallbackOk(r_trace[k], r_index)
          /\ (~r_trace[k].raised /\ r_trace[k].kmers = {}) =>
                Range(results[k][2]) = BruteRow(regexes[r_trace[k].i + 1])

C9_Witness ==
    /\ r_pc = "returned"
    /\ Len(r_trace) = 2 /\ Len(m_trace) = 2 /\ Len(strings) = 2
    /\ r_trace[1].kmers = {} /\ r_trace[1].cand = {0, 1}
    /\ r_trace[2].kmers # {} /\ r_trace[2].cand = {1}
    /\ m_trace[1].kmers = {} /\ m_trace[1].cand = {0, 1}
    /\ m_trace[2].kmers # {} /\ m_trace[2].cand = {1}

\* C10 (Extractor output): regex_literal_3mers returns exactly the union,
\* over the maximal runs of consecutive top-level literal tokens of length
\* >= 3, of the 3-character windows of the run; shorter runs give nothing, a
\* run that ends the pattern counts like any other, and with no run of
\* length >= 3 the result is empty.
IsLiteral(toks, n) == n \in DOMAIN toks /\ toks[n].op = "LITERAL"

MaximalRuns(toks) ==
    {r \in (DOMAIN toks) \X (DOMAIN toks) :
        /\ r[1] <= r[2]
        /\ \A n \in r[1]..r[2] : IsLiteral(toks, n)
        /\ ~IsLiteral(toks, r[1] - 1)
        /\ ~IsLiteral(toks, r[2] + 1)}

RunLen(r) == r[2] - r[1] + 1
RunWindows(toks, r) ==
    {[k \in 1..3 |-> toks[n + k - 1].ch] : n \in r[1]..(r[2] - 2)}

C10_ExtractorOutput ==
    x_pc = "returned" =>
        /\ x_kmers = UNION {RunWindows(sre_parse(regex).items, r) :
                               r \in {q \in MaximalRuns(sre_parse(regex).items) :
                                         RunLen(q) >= 3}}
        /\ (\A r \in MaximalRuns(sre_parse(regex).items) : RunLen(r) < 3)
              => x_kmers = {}

C10_Witness ==
    /\ x_pc = "returned"
    /\ Cardinality(x_kmers) = 2
    /\ \E r1, r2 \in MaximalRuns(sre_parse(regex).items) :
          /\ RunLen(r1) = 3 /\ RunLen(r2) = 3
          /\ r1[2] < r2[1]
          /\ r2[2] = Len(sre_parse(regex).items)

\* C11 (Index read-only after build): once build_3mer_index has returned, no
\* query_3mers call and no loop iteration of match_regexes or
\* match_regexes_against_cdr3s changes the index (same keys, same posting set
\* for each key), also when a queried 3-mer is absent from it, and none
\* changes the corpus; and in every state the row of each processed pattern
\* is the row the call gives for that pattern alone.
SameIndex(old, new) ==
    /\ DOMAIN new = DOMAIN old
    /\ \A w \in DOMAIN old : new[w] = old[w]

ReadOnlyStep ==
    /\ strings' = strings
    /\ m_pc # "start" => SameIndex(m_index, m_index')
    /\ r_pc # "start" => SameIndex(r_index, r_index')
    /\ ix_pc # "start" => SameIndex(index, index')

AloneRow(rx) == Row(match_regexes(<<rx>>, strings), 0)
AloneEntry(rx) == loop_body(rx, build_3mer_index(strings), strings).entry

RowsIndependent ==
    /\ \A k \in DOMAIN m_trace :
          ~m_trace[k].raised =>
              Row(mat, m_trace[k].i) = AloneRow(regexes[m_trace[k].i + 1])
    /\ \A k \in DOMAIN r_trace :
          results[k] = AloneEntry(regexes[r_trace[k].i + 1])

C11_IndexReadOnly == [][ReadOnlyStep]_vars /\ []RowsIndependent

\* Both batch calls have returned for two patterns: the first queried a
\* 3-mer that is not a key of the index, the second found a match.
C11_Witness ==
    /\ r_pc = "returned"
    /\ Len(regexes) = 2
    /\ m_index # EmptyDict
    /\ m_trace[1].queries # <<>>
    /\ \E w \in Range(m_trace[1].queries[1]) : w \notin DOMAIN m_index
    /\ r_trace[1].queries # <<>>
    /\ \E w \in Range(r_trace[1].queries[1]) : w \notin DOMAIN r_index
    /\ Row(mat, 1) # {}
    /\ results[2][2] # <<>>

=============================================================================
